---- MODULE Spec2Model ----
(***************************************************************************)
(* A model of the MUD server of src/mudserver.py: the client registry,     *)
(* the double-buffered event lists, the update() pass (accept, liveness     *)
(* probes, message processing), send_message() and the Telnet read parser  *)
(* _process_sent_data().                                                   *)
(*                                                                         *)
(* Strings are sequences of latin-1 code points (0..255), so that the      *)
(* parser, strip(), split() and lower() are computed byte by byte.         *)
(* Time is counted in whole seconds.  The clock is read once per update(): *)
(* the duration of one update() is taken to be below the clock's           *)
(* resolution.                                                             *)
(***************************************************************************)
EXTENDS Integers, Sequences, FiniteSets, TLC

VARIABLES
    clients,      \* the registry, a dict in insertion order: Seq of [id, buffer, lastcheck, named]
    nextid,       \* counter for assigning each client a new id
    events,       \* the current event list (read by the get_* projections)
    new_events,   \* the pending event list
    now,          \* time.time(), in seconds
    backlog,      \* the connections waiting on the listening socket
    op,           \* the last public operation and how it ended
    trace,        \* history: the effects of the last operation, in program order
    h_pending,    \* history: events appended since the last update() returned
    h_exposed,    \* history: the events appended between the last two returns of update()
    h_ids,        \* history: the ids of all events ever appended
    h_life,       \* history: for each id, what has been appended for it so far
    active_players, \* the keys of the dict active_players of the game (src/simplemud.py)
    p_start,      \* parser harness: client.buffer before the first call
    p_buffer,     \* parser harness: client.buffer
    p_data,       \* parser harness: the chunks to receive; in LineSpec the chunks
                  \* client 0 has sent for its latest line
    p_ret,        \* parser harness: the value returned by the last call
    p_calls       \* parser harness: number of calls made

vars == << clients, nextid, events, new_events, now, backlog, op, trace, h_pending, h_exposed,
           h_ids, h_life, active_players, p_start, p_buffer, p_data, p_ret, p_calls >>

serverVars == << clients, nextid, events, new_events, now, backlog, op, trace, h_pending,
                 h_exposed, h_ids, h_life >>
parserVars == << p_start, p_buffer, p_data, p_ret, p_calls >>

(***************************************************************************)
(* Program constants.                                                      *)
(***************************************************************************)
EVENT_NEW_PLAYER == 1
EVENT_PLAYER_LEFT == 2
EVENT_COMMAND == 3

READ_STATE_NORMAL == 1
READ_STATE_COMMAND == 2
READ_STATE_SUBNEG == 3

TN_INTERPRET_AS_COMMAND == 255
TN_ARE_YOU_THERE == 246
TN_WILL == 251
TN_WONT == 252
TN_DO == 253
TN_DONT == 254
TN_SUBNEGOTIATION_START == 250
TN_SUBNEGOTIATION_END == 240

\* the liveness probe interval of _check_for_disconnected, in seconds
PROBE_INTERVAL == 5

\* "\n" and " "
NEWLINE == 10
SPACE == 32

Byte == 0..255

\* Python's None, as returned by _process_sent_data when no line was completed:
\* a value that is no string over Byte.
None == << -1 >>

(***************************************************************************)
(* Bounds of the model.                                                    *)
(***************************************************************************)
\* connections accepted over the life of the server
MaxId == 2
\* last value of the clock
MaxTime == 5
\* length of a client's buffer (the peer ends its line before it grows longer)
MaxBuf == 1
\* bytes between SB and SE in the subnegotiation inputs of the parser harness
MaxSub == 2
\* bytes of a multi-line chunk of the parser harness
MaxChunk == 4

\* longest chunk of mixed text and control bytes given to the parser
MaxMix == 2

(***************************************************************************)
(* Sequence helpers.                                                       *)
(***************************************************************************)
RECURSIVE SeqsUpTo(_, _)
SeqsUpTo(S, n) ==
    IF n = 0 THEN { << >> }
    ELSE LET shorter == SeqsUpTo(S, n - 1)
         IN shorter \cup { Append(s, x) : s \in { t \in shorter : Len(t) = n - 1 }, x \in S }

Count(s, P(_)) == Cardinality({ i \in 1..Len(s) : P(s[i]) })

Contains(s, x) == \E i \in 1..Len(s) : s[i] = x

(***************************************************************************)
(* _process_sent_data: the Telnet read parser.                             *)
(***************************************************************************)
\* ParseStep with two slips, on which C8 and C9 must fail: in the first the
\* subnegotiation branch is missing, so that the bytes after SB are buffered
\* as text; in the second a newline does not replace a message already set.
ParseStep_SubnegAsText(ps, c) ==
    IF ps.state = READ_STATE_NORMAL \/ (ps.state = READ_STATE_SUBNEG /\ c # TN_SUBNEGOTIATION_END) THEN
        IF c = TN_INTERPRET_AS_COMMAND THEN [ps EXCEPT !.state = READ_STATE_COMMAND]
        ELSE IF c = NEWLINE THEN [ps EXCEPT !.message = ps.buffer, !.buffer = << >>]
        ELSE [ps EXCEPT !.buffer = Append(ps.buffer, c)]
    ELSE IF ps.state = READ_STATE_COMMAND THEN
        IF c = TN_SUBNEGOTIATION_START THEN [ps EXCEPT !.state = READ_STATE_SUBNEG]
        ELSE IF c \in {TN_WILL, TN_WONT, TN_DO, TN_DONT} THEN [ps EXCEPT !.state = READ_STATE_COMMAND]
        ELSE [ps EXCEPT !.state = READ_STATE_NORMAL]
    ELSE [ps EXCEPT !.state = READ_STATE_NORMAL]

ParseStep_KeepsFirstLine(ps, c) ==
    IF ps.state = READ_STATE_NORMAL THEN
        IF c = TN_INTERPRET_AS_COMMAND THEN [ps EXCEPT !.state = READ_STATE_COMMAND]
        ELSE IF c = NEWLINE
        THEN [ps EXCEPT !.message = IF ps.message = None THEN ps.buffer ELSE ps.message,
                        !.buffer = << >>]
        ELSE [ps EXCEPT !.buffer = Append(ps.buffer, c)]
    ELSE IF ps.state = READ_STATE_COMMAND THEN
        IF c = TN_SUBNEGOTIATION_START THEN [ps EXCEPT !.state = READ_STATE_SUBNEG]
        ELSE IF c \in {TN_WILL, TN_WONT, TN_DO, TN_DONT} THEN [ps EXCEPT !.state = READ_STATE_COMMAND]
        ELSE [ps EXCEPT !.state = READ_STATE_NORMAL]
    ELSE IF ps.state = READ_STATE_SUBNEG THEN
        IF c = TN_SUBNEGOTIATION_END THEN [ps EXCEPT !.state = READ_STATE_NORMAL]
        ELSE ps
    ELSE ps

\* A loop body that drops the Telnet command codes (240..255) it meets in the
\* normal state instead of buffering them: C19 must fail on it.
ParseStep_DropsControlBytes(ps, c) ==
    IF ps.state = READ_STATE_NORMAL THEN
        IF c = TN_INTERPRET_AS_COMMAND THEN [ps EXCEPT !.state = READ_STATE_COMMAND]
        ELSE IF c = NEWLINE THEN [ps EXCEPT !.message = ps.buffer, !.buffer = << >>]
        ELSE IF c >= TN_SUBNEGOTIATION_END THEN ps
        ELSE [ps EXCEPT !.buffer = Append(ps.buffer, c)]
    ELSE IF ps.state = READ_STATE_COMMAND THEN
        IF c = TN_SUBNEGOTIATION_START THEN [ps EXCEPT !.state = READ_STATE_SUBNEG]
        ELSE IF c \in {TN_WILL, TN_WONT, TN_DO, TN_DONT} THEN [ps EXCEPT !.state = READ_STATE_COMMAND]
        ELSE [ps EXCEPT !.state = READ_STATE_NORMAL]
    ELSE IF ps.state = READ_STATE_SUBNEG THEN
        IF c = TN_SUBNEGOTIATION_END THEN [ps EXCEPT !.state = READ_STATE_NORMAL]
        ELSE ps
    ELSE ps

\* A loop body that takes IAC IAC for an escaped byte 255 and buffers it: C25
\* must fail on it.
ParseStep_EscapedIac(ps, c) ==
    IF ps.state = READ_STATE_NORMAL THEN
        IF c = TN_INTERPRET_AS_COMMAND THEN [ps EXCEPT !.state = READ_STATE_COMMAND]
        ELSE IF c = NEWLINE THEN [ps EXCEPT !.message = ps.buffer, !.buffer = << >>]
        ELSE [ps EXCEPT !.buffer = Append(ps.buffer, c)]
    ELSE IF ps.state = READ_STATE_COMMAND THEN
        IF c = TN_SUBNEGOTIATION_START THEN [ps EXCEPT !.state = READ_STATE_SUBNEG]
        ELSE IF c \in {TN_WILL, TN_WONT, TN_DO, TN_DONT} THEN [ps EXCEPT !.state = READ_STATE_COMMAND]
        ELSE IF c = TN_INTERPRET_AS_COMMAND
        THEN [ps EXCEPT !.state = READ_STATE_NORMAL, !.buffer = Append(ps.buffer, c)]
        ELSE [ps EXCEPT !.state = READ_STATE_NORMAL]
    ELSE IF ps.state = READ_STATE_SUBNEG THEN
        IF c = TN_SUBNEGOTIATION_END THEN [ps EXCEPT !.state = READ_STATE_NORMAL]
        ELSE ps
    ELSE ps

\* One iteration of the loop "for c in data" (the body of the loop):
\* ps is [state, message, buffer], c the character.
ParseStep(ps, c) ==
    IF ps.state = READ_STATE_NORMAL THEN
        IF c = TN_INTERPRET_AS_COMMAND THEN [ps EXCEPT !.state = READ_STATE_COMMAND]
        ELSE IF c = NEWLINE THEN [ps EXCEPT !.message = ps.buffer, !.buffer = << >>]
        ELSE [ps EXCEPT !.buffer = Append(ps.buffer, c)]
    ELSE IF ps.state = READ_STATE_COMMAND THEN
        IF c = TN_SUBNEGOTIATION_START THEN [ps EXCEPT !.state = READ_STATE_SUBNEG]
        ELSE IF c \in {TN_WILL, TN_WONT, TN_DO, TN_DONT} THEN [ps EXCEPT !.state = READ_STATE_COMMAND]
        ELSE [ps EXCEPT !.state = READ_STATE_NORMAL]
    ELSE IF ps.state = READ_STATE_SUBNEG THEN
        IF c = TN_SUBNEGOTIATION_END THEN [ps EXCEPT !.state = READ_STATE_NORMAL]
        ELSE ps
    ELSE ps

RECURSIVE ParseLoop(_, _, _)
ParseLoop(ps, data, i) ==
    IF i > Len(data) THEN ps ELSE ParseLoop(ParseStep(ps, data[i]), data, i + 1)

\* A parser that collects each call's text in a buffer of its own, not in
\* the client's: C20 must fail on it.
ProcessSentData_FreshBuffer(buffer, data) ==
    LET end == ParseLoop([state |-> READ_STATE_NORMAL, message |-> None, buffer |-> << >>],
                         data, 1)
    IN [message |-> end.message, buffer |-> end.buffer]

\* _process_sent_data(client, data): starts with no message and in the normal
\* state; gives the returned message and the client's buffer afterwards.
ProcessSentData(buffer, data) ==
    LET end == ParseLoop([state |-> READ_STATE_NORMAL, message |-> None, buffer |-> buffer],
                         data, 1)
    IN [message |-> end.message, buffer |-> end.buffer]

(***************************************************************************)
(* The str methods used on a completed line.                               *)
(***************************************************************************)
\* the characters str.isspace() holds of, among the latin-1 code points
Whitespace == {9, 10, 11, 12, 13, 28, 29, 30, 31, 32, 133, 160}

RECURSIVE LStrip(_)
LStrip(s) == IF s # << >> /\ Head(s) \in Whitespace THEN LStrip(Tail(s)) ELSE s

RECURSIVE RStrip(_)
RStrip(s) ==
    IF s # << >> /\ s[Len(s)] \in Whitespace THEN RStrip(SubSeq(s, 1, Len(s) - 1)) ELSE s

\* message.strip()
Strip(s) == RStrip(LStrip(s))

\* position of the first " " of s, or 0
RECURSIVE FirstSpace(_, _)
FirstSpace(s, i) ==
    IF i > Len(s) THEN 0 ELSE IF s[i] = SPACE THEN i ELSE FirstSpace(s, i + 1)

\* (message.split(" ",1)+["",""])[:2]
SplitCommand(message) ==
    LET k == FirstSpace(message, 1)
    IN IF k = 0 THEN << message, << >> >>
       ELSE << SubSeq(message, 1, k - 1), SubSeq(message, k + 1, Len(message)) >>

\* str.lower() on latin-1 code points
LowerChar(c) ==
    IF c \in 65..90 \/ c \in 192..214 \/ c \in 216..222 THEN c + 32 ELSE c

Lower(s) == [i \in 1..Len(s) |-> LowerChar(s[i])]

\* "if message:" -- the truth value of the value returned by the parser
Truthy(message) == message # None /\ message # << >>

(***************************************************************************)
(* The registry: self.clients, a dict from client id to Client, kept as    *)
(* the sequence of its entries in insertion order (the order in which      *)
(* list(self.clients.items()) yields them).                                *)
(***************************************************************************)
DictIds(cs) == { cs[i].id : i \in 1..Len(cs) }

DictHas(cs, id) == \E i \in 1..Len(cs) : cs[i].id = id

DictGet(cs, id) == cs[CHOOSE i \in 1..Len(cs) : cs[i].id = id]

\* del(self.clients[clid])
DictDel(cs, id) == SelectSeq(cs, LAMBDA c : c.id # id)

\* self.clients[id] = cl, for an id that is not a key yet
DictInsert(cs, cl) == Append(cs, cl)

\* assignment to the fields of the Client object the registry holds for id
DictUpdate(cs, id, cl) == [i \in 1..Len(cs) |-> IF cs[i].id = id THEN cl ELSE cs[i]]

\* MudServer.Client.__init__
NewClient(id, buffer, lastcheck) ==
    [id |-> id, buffer |-> buffer, lastcheck |-> lastcheck, named |-> FALSE]

(***************************************************************************)
(* The private methods.  They work on st, the part of the server's state   *)
(* an operation changes: [clients, nextid, new_events], with               *)
(*   raised  whether an exception is propagating to the caller,            *)
(*   trace   the effects so far, each [k, id, v]:                          *)
(*     send / send_fail  a sendall on the socket of id, v the bytes        *)
(*     del               id was deleted from the registry                  *)
(*     keyerror          del of an id that is no key                       *)
(*     emit              v was appended to new_events                      *)
(*     live              the liveness pass visits id, v = <<lastcheck>>    *)
(*     lastcheck         cl.lastcheck of id was set to v[1]                *)
(*     msg               the message pass visits id                        *)
(*     recv_fail         recv on the socket of id raised                   *)
(*     line_unnamed / line_named   the parser returned the line v for id,  *)
(*                       whose named flag was false / true                 *)
(***************************************************************************)
Effect(k, id, v) == [k |-> k, id |-> id, v |-> v]

Log(st, k, id, v) == [st EXCEPT !.trace = Append(@, Effect(k, id, v))]

\* self.new_events.append(ev)
Emit(st, ev) ==
    Log([st EXCEPT !.new_events = Append(@, ev)], "emit", ev[2], ev)

\* _handle_disconnect without the del: C2 and C23 must fail on it
HandleDisconnect_KeepsClient(st, clid) ==
    Emit(st, << EVENT_PLAYER_LEFT, clid >>)

\* _handle_disconnect(clid)
HandleDisconnect(st, clid) ==
    IF ~DictHas(st.clients, clid)
    THEN [Log(st, "keyerror", clid, << >>) EXCEPT !.raised = TRUE]
    ELSE Emit(Log([st EXCEPT !.clients = DictDel(@, clid)], "del", clid, << >>),
              << EVENT_PLAYER_LEFT, clid >>)

\* bytes(data,"latin1"): the character with code point n becomes the byte n
Latin1(data) == [i \in 1..Len(data) |-> data[i]]

\* _attempt_send with KeyError handled like socket.error: C4 must fail on it
AttemptSend_KeyErrorDisconnects(st, clid, data, ok) ==
    IF ~DictHas(st.clients, clid) THEN Emit(st, << EVENT_PLAYER_LEFT, clid >>)
    ELSE IF ok THEN Log(st, "send", clid, Latin1(data))
    ELSE HandleDisconnect(Log(st, "send_fail", clid, Latin1(data)), clid)

\* _attempt_send(clid, data); ok: whether sendall succeeds (else socket.error)
AttemptSend(st, clid, data, ok) ==
    IF ~DictHas(st.clients, clid) THEN st
    ELSE IF ok THEN Log(st, "send", clid, Latin1(data))
    ELSE HandleDisconnect(Log(st, "send_fail", clid, Latin1(data)), clid)

\* "What is your name?\n"
PROMPT == << 87, 104, 97, 116, 32, 105, 115, 32, 121, 111, 117, 114, 32,
             110, 97, 109, 101, 63, 10 >>

\* A variant that advances nextid only while the accepted client is still
\* registered: C11 must fail on it.
CheckForNewConnections_ReusesId(st, listen, promptOk, t) ==
    IF listen = "idle" THEN st
    ELSE IF listen = "error" THEN [Log(st, "accept_fail", -1, << >>) EXCEPT !.raised = TRUE]
    ELSE LET joined == [st EXCEPT !.clients = DictInsert(@, NewClient(st.nextid, << >>, t))]
             prompted == AttemptSend(joined, st.nextid, PROMPT, promptOk)
         IN [prompted EXCEPT !.nextid = IF DictHas(prompted.clients, st.nextid)
                                        THEN st.nextid + 1 ELSE st.nextid]

\* A variant that accepts the connection without registering the client: C17
\* must fail on it.
CheckForNewConnections_NotRegistered(st, listen, promptOk, t) ==
    IF listen = "idle" THEN st
    ELSE IF listen = "error" THEN [Log(st, "accept_fail", -1, << >>) EXCEPT !.raised = TRUE]
    ELSE [AttemptSend(st, st.nextid, PROMPT, promptOk) EXCEPT !.nextid = st.nextid + 1]

\* _check_for_new_connections(); listen: "idle" (the listening socket is not
\* readable), "conn" (accept returns a connection) or "error" (accept raises);
\* t: time.time()
CheckForNewConnections(st, listen, promptOk, t) ==
    IF listen = "idle" THEN st
    ELSE IF listen = "error" THEN [Log(st, "accept_fail", -1, << >>) EXCEPT !.raised = TRUE]
    ELSE LET joined == [st EXCEPT !.clients = DictInsert(@, NewClient(st.nextid, << >>, t))]
             prompted == AttemptSend(joined, st.nextid, PROMPT, promptOk)
         IN [prompted EXCEPT !.nextid = st.nextid + 1]

\* chr(TN_INTERPRET_AS_COMMAND)+chr(TN_ARE_YOU_THERE)
PROBE == << TN_INTERPRET_AS_COMMAND, TN_ARE_YOU_THERE >>

\* the test with <= for <: C10 must fail on it
ProbeNotDue_Inclusive(t, lastcheck) == t - lastcheck <= PROBE_INTERVAL

\* the test "time.time() - cl.lastcheck < 5.0"
ProbeNotDue(t, lastcheck) == t - lastcheck < PROBE_INTERVAL

\* One iteration of the loop of _check_for_disconnected for the entry cl of
\* the snapshot list(self.clients.items())
CheckOneDisconnected(st, cl, probeOk, t) ==
    LET visited == Log(st, "live", cl.id, << cl.lastcheck >>)
    IN IF ProbeNotDue(t, cl.lastcheck) THEN visited
       ELSE LET sent == AttemptSend(visited, cl.id, PROBE,
                                    cl.id \in DOMAIN probeOk => probeOk[cl.id])
                set == IF DictHas(sent.clients, cl.id)
                       THEN [sent EXCEPT !.clients =
                                DictUpdate(@, cl.id, [cl EXCEPT !.lastcheck = t])]
                       ELSE sent
            IN Log(set, "lastcheck", cl.id, << t >>)

RECURSIVE DisconnectedLoop(_, _, _, _, _)
DisconnectedLoop(st, snapshot, i, probeOk, t) ==
    IF i > Len(snapshot) \/ st.raised THEN st
    ELSE DisconnectedLoop(CheckOneDisconnected(st, snapshot[i], probeOk, t),
                          snapshot, i + 1, probeOk, t)

\* _check_for_disconnected()
CheckForDisconnected(st, probeOk, t) == DisconnectedLoop(st, st.clients, 1, probeOk, t)

\* the outcomes of select + recv on a client socket
NotReadable == [kind |-> "idle", data |-> << >>]
RecvError == [kind |-> "error", data |-> << >>]
Received(data) == [kind |-> "data", data |-> data]

\* The body of "if message:" without "cl.named = True": C24 must fail on it.
HandleMessage_NeverNamed(st, cl, line) ==
    LET message == Strip(line)
    IN IF ~cl.named
       THEN Emit(st, << EVENT_NEW_PLAYER, cl.id, message >>)
       ELSE LET parts == SplitCommand(message)
            IN Emit(st, << EVENT_COMMAND, cl.id, Lower(parts[1]), parts[2] >>)

\* The body of "if message:" in _check_for_messages, for the client cl whose
\* buffer the parser has already updated
HandleMessage(st, cl, line) ==
    LET message == Strip(line)
    IN IF ~cl.named
       THEN Emit([st EXCEPT !.clients = DictUpdate(@, cl.id, [cl EXCEPT !.named = TRUE])],
                 << EVENT_NEW_PLAYER, cl.id, message >>)
       ELSE LET parts == SplitCommand(message)
            IN Emit(st, << EVENT_COMMAND, cl.id, Lower(parts[1]), parts[2] >>)

\* the iteration without the except clause (the socket error propagates): C3
\* must fail on it
CheckOneMessage_Propagates(st, cl, r) ==
    LET visited == Log(st, "msg", cl.id, << >>)
    IN IF r.kind = "idle" THEN visited
       ELSE IF r.kind = "error"
       THEN [Log(visited, "recv_fail", cl.id, << >>) EXCEPT !.raised = TRUE]
       ELSE LET res == ProcessSentData(cl.buffer, r.data)
                read == [cl EXCEPT !.buffer = res.buffer]
                buffered == [Log(visited, "recv", cl.id, r.data)
                               EXCEPT !.clients = DictUpdate(@, cl.id, read)]
                logged == IF res.message = None THEN buffered
                          ELSE Log(buffered,
                                   IF cl.named THEN "line_named" ELSE "line_unnamed",
                                   cl.id, res.message)
            IN IF Truthy(res.message) THEN HandleMessage(logged, read, res.message)
               ELSE logged

\* One iteration of the loop of _check_for_messages for the entry cl of the
\* snapshot; r: the outcome of select + recv on its socket
CheckOneMessage(st, cl, r) ==
    LET visited == Log(st, "msg", cl.id, << >>)
    IN IF r.kind = "idle" THEN visited
       ELSE IF r.kind = "error"
       THEN HandleDisconnect(Log(visited, "recv_fail", cl.id, << >>), cl.id)
       ELSE LET res == ProcessSentData(cl.buffer, r.data)
                read == [cl EXCEPT !.buffer = res.buffer]
                buffered == [Log(visited, "recv", cl.id, r.data)
                               EXCEPT !.clients = DictUpdate(@, cl.id, read)]
                logged == IF res.message = None THEN buffered
                          ELSE Log(buffered,
                                   IF cl.named THEN "line_named" ELSE "line_unnamed",
                                   cl.id, res.message)
            IN IF Truthy(res.message) THEN HandleMessage(logged, read, res.message)
               ELSE logged

\* the outcome of select + recv on the socket of id: a socket the inputs say
\* nothing about is not readable
RecvOf(recv, id) == IF id \in DOMAIN recv THEN recv[id] ELSE NotReadable

RECURSIVE MessagesLoop(_, _, _, _)
MessagesLoop(st, snapshot, i, recv) ==
    IF i > Len(snapshot) \/ st.raised THEN st
    ELSE MessagesLoop(CheckOneMessage(st, snapshot[i], RecvOf(recv, snapshot[i].id)),
                      snapshot, i + 1, recv)

\* _check_for_messages()
CheckForMessages(st, recv) == MessagesLoop(st, st.clients, 1, recv)

\* the swap that extends the current list instead of replacing it: C1 must
\* fail on it
SwapEvents_Merged(ev, nev) == [events |-> ev \o nev, new_events |-> << >>]

\* The end of update(): self.events = list(self.new_events); self.new_events = []
SwapEvents(ev, nev) == [events |-> nev, new_events |-> << >>]

\* update() with the message pass before the liveness pass: C18 must fail on
\* it.
UpdatePasses_MessagesFirst(st, env, t) ==
    LET accepted == CheckForNewConnections(st, env.listen, env.promptOk, t)
    IN IF accepted.raised THEN accepted
       ELSE LET read == CheckForMessages(accepted, env.recv)
            IN IF read.raised THEN read ELSE CheckForDisconnected(read, env.probeOk, t)

\* update(), up to the swap: the three passes in order.  An exception raised
\* by a pass ends update() there.
UpdatePasses(st, env, t) ==
    LET accepted == CheckForNewConnections(st, env.listen, env.promptOk, t)
    IN IF accepted.raised THEN accepted
       ELSE LET probed == CheckForDisconnected(accepted, env.probeOk, t)
            IN IF probed.raised THEN probed ELSE CheckForMessages(probed, env.recv)

(***************************************************************************)
(* The projections of the current event list.                              *)
(***************************************************************************)
\* A projection that lists the newest event first: C16 must fail on it.
RECURSIVE Projection_NewestFirst(_, _, _)
Projection_NewestFirst(evs, type, i) ==
    IF i > Len(evs) THEN << >>
    ELSE IF evs[i][1] = type
         THEN Projection_NewestFirst(evs, type, i + 1) \o << Tail(evs[i]) >>
         ELSE Projection_NewestFirst(evs, type, i + 1)

RECURSIVE Projection(_, _, _)
Projection(evs, type, i) ==
    IF i > Len(evs) THEN << >>
    ELSE IF evs[i][1] = type
         THEN << Tail(evs[i]) >> \o Projection(evs, type, i + 1)
         ELSE Projection(evs, type, i + 1)

\* get_new_players(): the (id, name) of the NEW_PLAYER events
GetNewPlayers == Projection(events, EVENT_NEW_PLAYER, 1)

RECURSIVE LeftIds(_, _)
LeftIds(evs, i) ==
    IF i > Len(evs) THEN << >>
    ELSE IF evs[i][1] = EVENT_PLAYER_LEFT
         THEN << evs[i][2] >> \o LeftIds(evs, i + 1)
         ELSE LeftIds(evs, i + 1)

\* get_disconnected_players(): the id of the PLAYER_LEFT events
GetDisconnectedPlayers == LeftIds(events, 1)

\* get_commands(): the (id, command, params) of the COMMAND events
GetCommands == Projection(events, EVENT_COMMAND, 1)

(***************************************************************************)
(* The environment of the server: what the sockets deliver.                *)
(***************************************************************************)
\* the chunks recv may return: "" (the peer closed), "\n" and " G n\n"
Chunks == { << >>, << NEWLINE >>, << SPACE, 71, SPACE, 110, NEWLINE >> }

\* the texts the game sends: "hi"
Messages == { << 104, 105 >> }

ListenOutcomes == { "idle", "conn", "error" }

RecvOutcomes == { NotReadable, RecvError } \cup { Received(c) : c \in Chunks }

\* the clients whose liveness probe is due at time t
ProbeDue(cs, t) == { cs[i].id : i \in { j \in 1..Len(cs) : ~ProbeNotDue(t, cs[j].lastcheck) } }

\* The inputs of one update(): the outcome of accept with b connections
\* waiting (select reports the listening socket readable when one is waiting;
\* accept raises when the peer has gone meanwhile), and of the name prompt
\* when a connection is accepted
ListenChoices(b) == { l \in ListenOutcomes : l = "idle" <=> b = 0 }

PromptChoices(listen) == IF listen = "conn" THEN BOOLEAN ELSE { TRUE }

\* the clients the message pass of an update() with these inputs visits
Readers(cs, nid, listen, promptOk, probeFail) ==
    IF listen = "error" THEN { }
    ELSE (DictIds(cs) \ probeFail) \cup (IF listen = "conn" /\ promptOk THEN { nid } ELSE { })

\* what recv may deliver to a client with this buffer
RecvChoices(cs, id, outcomes) ==
    { r \in outcomes :
        r.kind = "data" /\ DictHas(cs, id) =>
            Len(ProcessSentData(DictGet(cs, id).buffer, r.data).buffer) <= MaxBuf }

(***************************************************************************)
(* The operations.                                                         *)
(***************************************************************************)
Start(cs, nid, nev) ==
    [clients |-> cs, nextid |-> nid, new_events |-> nev, raised |-> FALSE, trace |-> << >>]

\* the events a trace appended to new_events
RECURSIVE Emitted(_, _)
Emitted(tr, i) ==
    IF i > Len(tr) THEN << >>
    ELSE IF tr[i].k = "emit" THEN << tr[i].v >> \o Emitted(tr, i + 1)
         ELSE Emitted(tr, i + 1)

\* The history of an id: how many NEW_PLAYER and PLAYER_LEFT events have been
\* appended for it (counted up to 2), whether a COMMAND event was appended
\* for it before its NEW_PLAYER event (early), and whether a NEW_PLAYER or
\* COMMAND event was appended for it after its PLAYER_LEFT event (late)
NoLife == [new |-> 0, left |-> 0, early |-> FALSE, late |-> FALSE]

AtMostTwo(n) == IF n < 2 THEN n ELSE 2

LifeWith(l, type) ==
    IF type = EVENT_PLAYER_LEFT THEN [l EXCEPT !.left = AtMostTwo(@ + 1)]
    ELSE IF type = EVENT_NEW_PLAYER
    THEN [l EXCEPT !.new = AtMostTwo(@ + 1), !.late = @ \/ l.left > 0]
    ELSE [l EXCEPT !.early = @ \/ l.new = 0, !.late = @ \/ l.left > 0]

\* the histories after the events evs[i], evs[i+1], ... have been appended
RECURSIVE LifeAfter(_, _, _)
LifeAfter(life, evs, i) ==
    IF i > Len(evs) THEN life
    ELSE LifeAfter(IF evs[i][2] \in DOMAIN life
                   THEN [life EXCEPT ![evs[i][2]] = LifeWith(@, evs[i][1])]
                   ELSE life,
                   evs, i + 1)

\* MudServer.__init__
Init ==
    /\ clients = << >>
    /\ nextid = 0
    /\ events = << >>
    /\ new_events = << >>
    /\ now = 0
    /\ backlog = 0
    /\ op = [name |-> "init", arg |-> -1, raised |-> FALSE]
    /\ trace = << >>
    /\ h_pending = << >>
    /\ h_exposed = << >>
    /\ h_ids = { }
    /\ h_life = [id \in 0..MaxId |-> NoLife]
    /\ active_players = { }
    /\ p_start = << >>
    /\ p_buffer = << >>
    /\ p_data = << >>
    /\ p_ret = None
    /\ p_calls = 0

\* the ids of the events a trace appended
EmittedIds(tr) == { tr[i].id : i \in { j \in 1..Len(tr) : tr[j].k = "emit" } }

\* update(), with select + recv on a client socket drawn from outcomes
UpdateServer(outcomes) ==
    \E listen \in ListenChoices(backlog) :
    \E promptOk \in PromptChoices(listen) :
    \E probeFail \in SUBSET ProbeDue(clients, now) :
    \E recv \in [Readers(clients, nextid, listen, promptOk, probeFail) -> outcomes] :
        /\ \A id \in DOMAIN recv : recv[id] \in RecvChoices(clients, id, outcomes)
        /\ \E end \in { UpdatePasses(Start(clients, nextid, new_events),
                                      [listen |-> listen, promptOk |-> promptOk,
                                       probeOk |-> [id \in DictIds(clients) |-> id \notin probeFail],
                                       recv |-> recv],
                                      now) } :
           \E swap \in { SwapEvents(events, end.new_events) } :
           /\ clients' = end.clients
           /\ nextid' = end.nextid
           /\ events' = IF end.raised THEN events ELSE swap.events
           /\ new_events' = IF end.raised THEN end.new_events ELSE swap.new_events
           /\ op' = [name |-> "update", arg |-> -1, raised |-> end.raised]
           /\ trace' = end.trace
           /\ h_exposed' = IF end.raised THEN h_exposed
                           ELSE h_pending \o Emitted(end.trace, 1)
           /\ h_pending' = IF end.raised THEN h_pending \o Emitted(end.trace, 1) ELSE << >>
           /\ h_ids' = h_ids \cup EmittedIds(end.trace)
           /\ h_life' = LifeAfter(h_life, Emitted(end.trace, 1), 1)
           /\ backlog' = IF listen = "idle" THEN backlog ELSE backlog - 1
           /\ UNCHANGED now

UpdateWith(outcomes) == UpdateServer(outcomes) /\ UNCHANGED << parserVars, active_players >>

Update == UpdateWith(RecvOutcomes)

\* send_message(to, message)
SendMessage ==
    \E to \in 0..MaxId, message \in Messages, ok \in BOOLEAN :
        /\ ~DictHas(clients, to) => ok
        /\ \E end \in { AttemptSend(Start(clients, nextid, new_events), to,
                                     message \o << NEWLINE >>, ok) } :
           /\ clients' = end.clients
           /\ nextid' = end.nextid
           /\ new_events' = end.new_events
           /\ op' = [name |-> "send_message", arg |-> to, raised |-> end.raised]
           /\ trace' = end.trace
           /\ h_pending' = h_pending \o Emitted(end.trace, 1)
           /\ h_ids' = h_ids \cup EmittedIds(end.trace)
           /\ h_life' = LifeAfter(h_life, Emitted(end.trace, 1), 1)
           /\ UNCHANGED << events, now, backlog, h_exposed, parserVars, active_players >>

\* time passes between two calls (the game loop sleeps between updates)
SleepFor(steps) ==
    \E d \in steps :
        /\ now + d <= MaxTime
        /\ now' = now + d
        /\ op' = [name |-> "sleep", arg |-> -1, raised |-> FALSE]
        /\ trace' = << >>
        /\ UNCHANGED << clients, nextid, events, new_events, backlog, h_pending, h_exposed,
                        h_ids, h_life, parserVars, active_players >>

Sleep == SleepFor({ PROBE_INTERVAL })

\* a peer connects to the listening socket (bind + listen in __init__); the
\* connection waits there until an update() accepts it
Connect ==
    /\ nextid + backlog < MaxId
    /\ backlog' = backlog + 1
    /\ op' = [name |-> "connect", arg |-> -1, raised |-> FALSE]
    /\ trace' = << >>
    /\ UNCHANGED << clients, nextid, events, new_events, now, h_pending, h_exposed, h_ids, h_life,
                    parserVars, active_players >>

Next == Update \/ SendMessage \/ Sleep \/ Connect

Spec == Init /\ [][Next]_vars

(***************************************************************************)
(* The liveness pass under a clock that advances second by second: the     *)
(* clients send nothing, so that every difference now - lastcheck occurs.  *)
(***************************************************************************)
ProbeUpdate == UpdateWith({ NotReadable, RecvError })

ProbeSleep == SleepFor(1..MaxTime)

ProbeNext == ProbeUpdate \/ ProbeSleep \/ Connect

ProbeSpec == Init /\ [][ProbeNext]_vars

(***************************************************************************)
(* The parser alone: one client, and the chunks recv delivers to it.       *)
(***************************************************************************)
\* "hi\n" and "ok\n"
HI_NL == << 104, 105, NEWLINE >>
OK_NL == << 111, 107, NEWLINE >>

\* IAC WILL <option> "hi\n", for every option byte
WillInputs ==
    { << TN_INTERPRET_AS_COMMAND, TN_WILL, o >> \o HI_NL : o \in Byte }

\* bytes between SB and SE: every single byte but SE, and the sequences over
\* a few bytes, control bytes and the newline among them
SubnegBytes ==
    { 0, NEWLINE, 120, TN_SUBNEGOTIATION_END - 1, TN_SUBNEGOTIATION_START, TN_WILL,
      TN_INTERPRET_AS_COMMAND }

SubnegBodies ==
    { << b >> : b \in Byte \ { TN_SUBNEGOTIATION_END } } \cup SeqsUpTo(SubnegBytes, MaxSub)

\* IAC SB <body> SE "ok\n"
SubnegInputs ==
    { << TN_INTERPRET_AS_COMMAND, TN_SUBNEGOTIATION_START >> \o body
        \o << TN_SUBNEGOTIATION_END >> \o OK_NL : body \in SubnegBodies }

\* text chunks: "a", "b" and newlines
LineInputs == SeqsUpTo({ 97, 98, NEWLINE }, MaxChunk)

\* what the buffer of the client holds before the chunk: "" or "x"
ParserBuffers == { << >>, << 120 >> }

\* IAC <WILL|WONT|DO|DONT> <option> cut after its first or second byte: the
\* first chunk is "" or "a" and the head of the sequence, the second chunk
\* its tail and "" or "b\n"
SplitInputs ==
    { << pre \o SubSeq(<< TN_INTERPRET_AS_COMMAND, w, o >>, 1, k),
         SubSeq(<< TN_INTERPRET_AS_COMMAND, w, o >>, k + 1, 3) \o post >> :
        pre \in { << >>, << 97 >> }, w \in { TN_WILL, TN_WONT, TN_DO, TN_DONT },
        o \in Byte, k \in { 1, 2 }, post \in { << >>, << 98, NEWLINE >> } }

\* two successive chunks of any bytes among "a", the newline, IAC, WILL, SB
\* and SE
MixedBytes ==
    { 97, NEWLINE, TN_INTERPRET_AS_COMMAND, TN_WILL, TN_SUBNEGOTIATION_START,
      TN_SUBNEGOTIATION_END }

MixedInputs ==
    { << c1, c2 >> : c1 \in SeqsUpTo(MixedBytes, MaxMix), c2 \in SeqsUpTo(MixedBytes, MaxMix) }

ParserCases ==
    ({ << >> } \X { << d >> : d \in WillInputs \cup SubnegInputs })
        \cup (ParserBuffers \X { << d >> : d \in LineInputs })
        \cup ({ << >> } \X SplitInputs)
        \cup ({ << >> } \X MixedInputs)

ParserInit ==
    /\ clients = << >>
    /\ nextid = 0
    /\ events = << >>
    /\ new_events = << >>
    /\ now = 0
    /\ backlog = 0
    /\ op = [name |-> "init", arg |-> -1, raised |-> FALSE]
    /\ trace = << >>
    /\ h_pending = << >>
    /\ h_exposed = << >>
    /\ h_ids = { }
    /\ h_life = [id \in 0..MaxId |-> NoLife]
    /\ active_players = { }
    /\ \E c \in ParserCases : p_start = c[1] /\ p_buffer = c[1] /\ p_data = c[2]
    /\ p_ret = None
    /\ p_calls = 0

\* message = self._process_sent_data(cl,data) on the next chunk
ParserReceive ==
    /\ p_calls < Len(p_data)
    /\ \E res \in { ProcessSentData(p_buffer, p_data[p_calls + 1]) } :
          /\ p_buffer' = res.buffer
          /\ p_ret' = res.message
    /\ p_calls' = p_calls + 1
    /\ UNCHANGED << p_start, p_data, serverVars, active_players >>

ParserNext == ParserReceive

ParserSpec == ParserInit /\ [][ParserNext]_vars

(***************************************************************************)
(* The whole public interface: update(), send_message(), the three         *)
(* projections and shutdown(), called in any order by the game.  No time   *)
(* passes, so no liveness probe is due.                                    *)
(***************************************************************************)
\* cl.socket.shutdown(): the call passes no argument, and socket.shutdown
\* takes exactly one (how), so Python raises TypeError at the call
SocketShutdown(st, id) == [Log(st, "shutdown_call", id, << >>) EXCEPT !.raised = TRUE]

\* cl.socket.close()
SocketClose(st, id) == Log(st, "close", id, << >>)

\* for cl in self.clients.values(): cl.socket.shutdown(); cl.socket.close()
RECURSIVE ShutdownLoop(_, _, _)
ShutdownLoop(st, cs, i) ==
    IF i > Len(cs) THEN st
    ELSE LET down == SocketShutdown(st, cs[i].id)
         IN IF down.raised THEN down
            ELSE ShutdownLoop(SocketClose(down, cs[i].id), cs, i + 1)

\* shutdown(), ending with self.listen_socket.close()
ShutdownServer(st) ==
    LET closed == ShutdownLoop(st, st.clients, 1)
    IN IF closed.raised THEN closed ELSE Log(closed, "close_listen", -1, << >>)

\* the server is in use until a shutdown() has returned
Running == ~(op.name = "shutdown" /\ ~op.raised)

\* the sockets deliver a whole line, fail, or have nothing to read
ApiOutcomes == { NotReadable, RecvError, Received(<< SPACE, 71, SPACE, 110, NEWLINE >>) }

ApiUpdate == Running /\ UpdateWith(ApiOutcomes)

ApiSendMessage == Running /\ SendMessage

ApiConnect == Running /\ Connect

\* A projection that consumes the events it has shown: C12 must fail on it.
Getter_Consumes(name, retval) ==
    /\ Running
    /\ op' = [name |-> name, arg |-> -1, raised |-> FALSE]
    /\ trace' = << Effect("return", -1, retval) >>
    /\ events' = << >>
    /\ UNCHANGED << clients, nextid, new_events, now, backlog, h_pending, h_exposed,
                    h_ids, h_life, parserVars, active_players >>

\* a projection called by the game: it returns retval
Getter(name, retval) ==
    /\ Running
    /\ op' = [name |-> name, arg |-> -1, raised |-> FALSE]
    /\ trace' = << Effect("return", -1, retval) >>
    /\ UNCHANGED << clients, nextid, events, new_events, now, backlog, h_pending, h_exposed,
                    h_ids, h_life, parserVars, active_players >>

CallGetNewPlayers == Getter("get_new_players", GetNewPlayers)

CallGetDisconnectedPlayers == Getter("get_disconnected_players", GetDisconnectedPlayers)

CallGetCommands == Getter("get_commands", GetCommands)

\* shutdown()
Shutdown ==
    /\ Running
    /\ \E end \in { ShutdownServer(Start(clients, nextid, new_events)) } :
          /\ op' = [name |-> "shutdown", arg |-> -1, raised |-> end.raised]
          /\ trace' = end.trace
    /\ UNCHANGED << clients, nextid, events, new_events, now, backlog, h_pending, h_exposed,
                    h_ids, h_life, parserVars, active_players >>

ApiNext ==
    \/ ApiUpdate
    \/ ApiSendMessage
    \/ ApiConnect
    \/ CallGetNewPlayers
    \/ CallGetDisconnectedPlayers
    \/ CallGetCommands
    \/ Shutdown

ApiSpec == Init /\ [][ApiNext]_vars

(***************************************************************************)
(* One client that sends its lines in pieces, over several update() calls. *)
(* p_data records the chunks it has sent for its latest line.              *)
(***************************************************************************)
\* text without control bytes, a newline at most at the end: "a", "b", "\n",
\* "b\n", "ab\n"
LineChunks ==
    { << 97 >>, << 98 >>, << NEWLINE >>, << 98, NEWLINE >>, << 97, 98, NEWLINE >> }

LineOutcomes == { NotReadable } \cup { Received(c) : c \in LineChunks }

\* the chunks of the latest line after chunk c: c begins a new line when the
\* chunk before it ended one
LineChunksAfter(chunks, c) ==
    IF chunks # << >> /\ chunks[Len(chunks)][Len(chunks[Len(chunks)])] = NEWLINE
    THEN << c >>
    ELSE Append(chunks, c)

\* the single client connects
LineConnect == nextid = 0 /\ backlog = 0 /\ Connect

\* update(), in which the client's socket delivers r
LineUpdate ==
    \E r \in LineOutcomes :
        /\ UpdateServer({ r })
        /\ p_data' = IF \E i \in 1..Len(trace') : trace'[i].k = "recv" /\ trace'[i].id = 0
                     THEN LineChunksAfter(p_data, r.data)
                     ELSE p_data
        /\ UNCHANGED << p_start, p_buffer, p_ret, p_calls, active_players >>

\* the game may write to the client between two updates
LineNext == LineConnect \/ LineUpdate \/ SendMessage

LineSpec == Init /\ [][LineNext]_vars

(***************************************************************************)
(* Peers that go away once they are registered: every write to a           *)
(* registered client fails, and its socket has nothing to read or fails.   *)
(* The game loop keeps calling update() and time keeps advancing (up to    *)
(* MaxTime).                                                               *)
(***************************************************************************)
\* update() with dead peers: only the name prompt can be written
LiveUpdate ==
    /\ UpdateWith({ NotReadable, RecvError })
    /\ \A i \in 1..Len(trace') : trace'[i].k = "send" => trace'[i].v = PROMPT

LiveSleep == SleepFor(1..MaxTime)

LiveNext == LiveUpdate \/ LiveSleep \/ Connect

\* the loop "while True: time.sleep(0.2); mud.update()" never stops
LiveSpec == Init /\ [][LiveNext]_vars /\ WF_vars(LiveUpdate) /\ WF_vars(LiveSleep)

(***************************************************************************)
(* The game loop of src/simplemud.py: update(), then the new players, the  *)
(* disconnected players and the commands of the current event list.  Of    *)
(* the dict active_players the keys are kept: a key is the Python value    *)
(* used as key, an int (a player id) or a tuple (id, name).                *)
(***************************************************************************)
IntKey(id) == [tag |-> "int", id |-> id, name |-> << >>]

TupleKey(p) == [tag |-> "tuple", id |-> p[1], name |-> p[2]]

\* "What is your name?"
NAME_PROMPT == SubSeq(PROMPT, 1, Len(PROMPT) - 1)

\* mud.send_message(key, message): for a key that is a tuple the lookup
\* self.clients[clid] of _attempt_send raises KeyError, which is passed
GameSend(st, key, message, ok) ==
    IF key.tag = "int" THEN AttemptSend(st, key.id, message \o << NEWLINE >>, ok)
    ELSE st

\* for pid,pl in active_players.items(): mud.send_message(pid, ...)
RECURSIVE GameBroadcast(_, _, _, _)
GameBroadcast(st, keys, message, ok) ==
    IF keys = { } THEN st
    ELSE LET key == CHOOSE k \in keys : TRUE
         IN GameBroadcast(GameSend(st, key, message, ok), keys \ { key }, message, ok)

\* for id in mud.get_new_players(): id is bound to the element of the list,
\* the tuple (id, name)
RECURSIVE GameNewPlayers(_, _, _, _)
GameNewPlayers(g, news, i, ok) ==
    IF i > Len(news) THEN g
    ELSE LET key == TupleKey(news[i])
             stored == [g EXCEPT !.active_players = @ \cup { key },
                                 !.st = Log(@, "stored", news[i][1], << >>)]
         IN GameNewPlayers([stored EXCEPT !.st = GameSend(@, key, NAME_PROMPT, ok)],
                           news, i + 1, ok)

\* for id in mud.get_disconnected_players(): id is the player id
RECURSIVE GameDisconnected(_, _, _, _)
GameDisconnected(g, lefts, i, ok) ==
    IF i > Len(lefts) THEN g
    ELSE IF IntKey(lefts[i]) \notin g.active_players
         THEN GameDisconnected(g, lefts, i + 1, ok)
         ELSE GameDisconnected(
                  [g EXCEPT !.st = GameBroadcast(@, g.active_players, << 113 >>, ok),
                            !.active_players = @ \ { IntKey(lefts[i]) }],
                  lefts, i + 1, ok)

\* for id,command,params in mud.get_commands(): a command of an id that is
\* not a key is skipped; the other commands are handled (of the name step
\* and the dispatch only the entry is kept)
RECURSIVE GameCommands(_, _, _, _)
GameCommands(g, cmds, i, ok) ==
    IF i > Len(cmds) THEN g
    ELSE GameCommands(
             [g EXCEPT !.st = Log(@, IF IntKey(cmds[i][1]) \notin g.active_players
                                     THEN "skipped" ELSE "handled",
                                  cmds[i][1], << >>)],
             cmds, i + 1, ok)

\* mud.update() in the loop; an exception of update() ends the program
GameUpdate == op.name # "update" /\ UpdateWith(ApiOutcomes)

\* the three loops over the projections that follow mud.update()
GameProcess ==
    /\ op.name = "update" /\ ~op.raised
    /\ \E ok \in BOOLEAN :
       \E end \in { GameCommands(
                       GameDisconnected(
                         GameNewPlayers([st |-> Start(clients, nextid, new_events),
                                         active_players |-> active_players],
                                        GetNewPlayers, 1, ok),
                         GetDisconnectedPlayers, 1, ok),
                       GetCommands, 1, ok) } :
          /\ clients' = end.st.clients
          /\ nextid' = end.st.nextid
          /\ new_events' = end.st.new_events
          /\ op' = [name |-> "process", arg |-> -1, raised |-> end.st.raised]
          /\ trace' = end.st.trace
          /\ active_players' = end.active_players
          /\ h_pending' = h_pending \o Emitted(end.st.trace, 1)
          /\ h_ids' = h_ids \cup EmittedIds(end.st.trace)
          /\ h_life' = LifeAfter(h_life, Emitted(end.st.trace, 1), 1)
    /\ UNCHANGED << events, now, backlog, h_exposed, parserVars >>

\* peers connect between two rounds of the loop
GameConnect == op.name # "update" /\ Connect

GameNext == GameUpdate \/ GameProcess \/ GameConnect

GameSpec == Init /\ [][GameNext]_vars

(***************************************************************************)
(* Properties.                                                             *)
(***************************************************************************)
\* the effects of kind k on client id in the last operation
Effects(k, id) == Count(trace, LAMBDA e : e.k = k /\ e.id = id)

\* the events ev the last operation appended to new_events
Appended(ev) == Count(trace, LAMBDA e : e.k = "emit" /\ e.v = ev)

\* the events of a type the last operation appended for client id
AppendedFor(type, id) ==
    Count(trace, LAMBDA e : e.k = "emit" /\ e.id = id /\ e.v[1] = type)

\* the sendall calls of the last operation that wrote data to client id
Writes(id, data) ==
    Count(trace, LAMBDA e : e.k \in { "send", "send_fail" } /\ e.id = id /\ e.v = data)

UpdateReturned == op.name = "update" /\ ~op.raised

\* C1: the projections always show exactly the events appended between the
\* last two returns of update() (nothing appended since, nothing older), and
\* when update() has just returned the pending list is empty.
C1_DoubleBufferedFeed ==
    /\ GetNewPlayers = Projection(h_exposed, EVENT_NEW_PLAYER, 1)
    /\ GetDisconnectedPlayers = LeftIds(h_exposed, 1)
    /\ GetCommands = Projection(h_exposed, EVENT_COMMAND, 1)
    /\ Len(GetNewPlayers) + Len(GetDisconnectedPlayers) + Len(GetCommands) = Len(h_exposed)
    /\ Len(events) = Len(h_exposed)
    /\ new_events = h_pending
    /\ UpdateReturned => new_events = << >>

\* C1 witness: an update() has returned that exposes a command and a
\* disconnect, the NEW_PLAYER event of the commanding client (exposed by an
\* earlier update) being gone.
C1_Witness ==
    /\ UpdateReturned
    /\ GetCommands # << >>
    /\ GetDisconnectedPlayers # << >>
    /\ GetNewPlayers = << >>

\* C2: a failed write to a registered client (send_message, name prompt or
\* probe) deletes the client at once and appends one PLAYER_LEFT event for it:
\* the client is not registered afterwards and no later iteration of the same
\* operation visits it.
C2_WriteFailureDisconnects ==
    \A i \in 1..Len(trace) :
        trace[i].k = "send_fail" =>
            /\ ~DictHas(clients, trace[i].id)
            /\ Appended(<< EVENT_PLAYER_LEFT, trace[i].id >>) = 1
            /\ AppendedFor(EVENT_PLAYER_LEFT, trace[i].id) = 1
            /\ i + 2 <= Len(trace)
            /\ trace[i + 1] = Effect("del", trace[i].id, << >>)
            /\ trace[i + 2] = Effect("emit", trace[i].id, << EVENT_PLAYER_LEFT, trace[i].id >>)
            /\ \A j \in (i + 1)..Len(trace) :
                  trace[j].k \in { "live", "msg" } => trace[j].id # trace[i].id
            /\ ~op.raised

\* C2 witness: in one update() the name prompt of the accepted client and the
\* probe of an older client both fail.
C2_Witness ==
    /\ UpdateReturned
    /\ \E i, j \in 1..Len(trace) :
          /\ trace[i].k = "send_fail" /\ trace[i].v = PROMPT
          /\ trace[j].k = "send_fail" /\ trace[j].v = PROBE
          /\ GetDisconnectedPlayers = << trace[i].id, trace[j].id >>

\* C3: a failed read during update() disconnects that client and no other:
\* it is deleted, one PLAYER_LEFT event is appended for it, the pass goes on
\* to the clients after it and update() returns.
C3_ReadFailureDisconnects ==
    /\ \A i \in 1..Len(trace) :
          trace[i].k = "recv_fail" =>
              /\ UpdateReturned
              /\ ~DictHas(clients, trace[i].id)
              /\ AppendedFor(EVENT_PLAYER_LEFT, trace[i].id) = 1
              /\ Contains(GetDisconnectedPlayers, trace[i].id)
    /\ UpdateReturned =>
          /\ \A id \in DictIds(clients) : Effects("msg", id) = 1
          /\ \A id \in 0..(MaxId - 1) :
                Effects("del", id) = Effects("send_fail", id) + Effects("recv_fail", id)

\* C3 witness: the read of one client fails and a client after it in the
\* registry has its line turned into an event by the same update().
C3_Witness ==
    /\ UpdateReturned
    /\ \E i, j \in 1..Len(trace) :
          /\ i < j
          /\ trace[i].k = "recv_fail"
          /\ trace[j].k = "emit" /\ trace[j].v[1] = EVENT_NEW_PLAYER
          /\ DictHas(clients, trace[j].id)

\* C4: send_message to an id that is not registered returns normally and
\* changes neither the registry, the pending events, the current events nor
\* nextid.
C4_SendToUnknownId ==
    [][ (op'.name = "send_message" /\ ~DictHas(clients, op'.arg)) =>
            /\ ~op'.raised
            /\ clients' = clients
            /\ new_events' = new_events
            /\ events' = events
            /\ nextid' = nextid ]_vars

\* C4 witness: send_message was called for a client that had been
\* disconnected before, and did nothing.
C4_Witness ==
    /\ op.name = "send_message"
    /\ op.arg < nextid
    /\ ~DictHas(clients, op.arg)
    /\ trace = << >>
    /\ new_events # << >>

\* C5: a line completed by a client that is not named yet yields one
\* NEW_PLAYER event (id, trimmed line) and no COMMAND event, and names the
\* client.
C5_FirstLineNames ==
    \A i \in 1..Len(trace) :
        trace[i].k = "line_unnamed" =>
            /\ Appended(<< EVENT_NEW_PLAYER, trace[i].id, Strip(trace[i].v) >>) = 1
            /\ AppendedFor(EVENT_NEW_PLAYER, trace[i].id) = 1
            /\ AppendedFor(EVENT_COMMAND, trace[i].id) = 0
            /\ DictHas(clients, trace[i].id)
            /\ DictGet(clients, trace[i].id).named

\* the first whitespace-delimited token of a trimmed line, and what follows
\* the whitespace character that ends it
RECURSIVE FirstWhitespace(_, _)
FirstWhitespace(s, i) ==
    IF i > Len(s) THEN 0 ELSE IF s[i] \in Whitespace THEN i ELSE FirstWhitespace(s, i + 1)

Verb(line) ==
    LET k == FirstWhitespace(line, 1)
    IN IF k = 0 THEN line ELSE SubSeq(line, 1, k - 1)

Remainder(line) ==
    LET k == FirstWhitespace(line, 1)
    IN IF k = 0 THEN << >> ELSE SubSeq(line, k + 1, Len(line))

\* C6: every line completed by a named client yields one COMMAND event (id,
\* verb, remainder): the verb is the first whitespace-delimited token of the
\* trimmed line in lower case, the remainder the rest of the line or "".
C6_CommandPerLine ==
    \A i \in 1..Len(trace) :
        trace[i].k = "line_named" =>
            /\ AppendedFor(EVENT_COMMAND, trace[i].id) = 1
            /\ Appended(<< EVENT_COMMAND, trace[i].id, Lower(Verb(Strip(trace[i].v))),
                           Remainder(Strip(trace[i].v)) >>) = 1

\* C7: IAC WILL <option> "hi\n" received in one chunk on an empty buffer makes
\* the parser return "hi" and leave the buffer empty, for every option byte.
C7_WillOptionSkipped ==
    (p_calls = 1 /\ p_start = << >> /\ p_data[1] \in WillInputs) =>
        /\ p_ret = << 104, 105 >>
        /\ p_buffer = << >>

\* C8: IAC SB <bytes without SE> SE "ok\n" received in one chunk on an empty
\* buffer makes the parser return "ok": the bytes between SB and SE are
\* absorbed.
C8_SubnegotiationAbsorbed ==
    (p_calls = 1 /\ p_start = << >> /\ p_data[1] \in SubnegInputs) =>
        /\ p_ret = << 111, 107 >>
        /\ p_buffer = << >>

\* C8 witness: the parser has returned "ok" for a chunk whose subnegotiation
\* holds a newline and an IAC.
C8_Witness ==
    /\ p_calls = 1
    /\ p_data[1] = << TN_INTERPRET_AS_COMMAND, TN_SUBNEGOTIATION_START,
                       NEWLINE, TN_INTERPRET_AS_COMMAND,
                       TN_SUBNEGOTIATION_END >> \o OK_NL
    /\ p_ret = << 111, 107 >>

\* the positions of the newlines of a chunk
Newlines(d) == { i \in 1..Len(d) : d[i] = NEWLINE }

Max(S) == CHOOSE x \in S : \A y \in S : y <= x
Min(S) == CHOOSE x \in S : \A y \in S : x <= y

\* the first line a chunk completes (with what the buffer held before), the
\* last line it completes when it completes several, and what follows its
\* last newline
FirstLine(buffer, d) == buffer \o SubSeq(d, 1, Min(Newlines(d)) - 1)

LastLine(d) ==
    LET last == Max(Newlines(d))
    IN SubSeq(d, Max(Newlines(d) \ { last }) + 1, last - 1)

Unterminated(d) == SubSeq(d, Max(Newlines(d)) + 1, Len(d))

SeveralLines == p_calls = 1 /\ p_data[1] \in LineInputs /\ Cardinality(Newlines(p_data[1])) >= 2

\* C9, as claimed: of a chunk with several newline-terminated lines the parser
\* returns the first line, and nothing of the rest is returned or buffered.
C9_FirstLineReturned ==
    SeveralLines =>
        /\ p_ret = FirstLine(p_start, p_data[1])
        /\ p_buffer = << >>

\* C9, amended: of a chunk with several newline-terminated lines the parser
\* returns the last of them; the text after the last newline stays in the
\* client's buffer.
C9_LastLineReturned ==
    SeveralLines =>
        /\ p_ret = LastLine(p_data[1])
        /\ p_buffer = Unterminated(p_data[1])

\* C9 witness: the chunk "\nb\na" was parsed on the buffer "x": "b" is
\* returned, "a" buffered and the first line, "x", is lost.
C9_Witness ==
    /\ SeveralLines
    /\ p_start = << 120 >>
    /\ p_data[1] = << NEWLINE, 98, NEWLINE, 97 >>
    /\ p_ret = << 98 >>
    /\ p_buffer = << 97 >>

\* C10: the liveness pass visits every registered client; a client checked
\* less than 5 seconds ago gets no probe and keeps its lastcheck; a client
\* checked 5 seconds ago or more gets exactly one probe (255, 246) and its
\* lastcheck is set to now, also when the probe fails.
C10_ProbeThreshold ==
    /\ \A i \in 1..Len(trace) :
          trace[i].k = "live" =>
              IF now - trace[i].v[1] < 5
              THEN /\ Writes(trace[i].id, << 255, 246 >>) = 0
                   /\ Effects("lastcheck", trace[i].id) = 0
                   /\ DictHas(clients, trace[i].id) =>
                         DictGet(clients, trace[i].id).lastcheck = trace[i].v[1]
              ELSE /\ Writes(trace[i].id, << 255, 246 >>) = 1
                   /\ Effects("lastcheck", trace[i].id) = 1
                   /\ \E j \in (i + 1)..Len(trace) :
                         trace[j] = Effect("lastcheck", trace[i].id, << now >>)
                   /\ DictHas(clients, trace[i].id) =>
                         DictGet(clients, trace[i].id).lastcheck = now
    /\ UpdateReturned => \A id \in DictIds(clients) : Effects("live", id) = 1

\* C10 witness: in one update() a client checked exactly 5 seconds ago was
\* sent a probe that failed, and a client checked 4 seconds ago was skipped.
C10_Witness ==
    /\ UpdateReturned
    /\ \E i, j \in 1..Len(trace) :
          /\ trace[i].k = "live" /\ now - trace[i].v[1] = 5
          /\ Effects("send_fail", trace[i].id) = 1
          /\ trace[j].k = "live" /\ now - trace[j].v[1] = 4
          /\ DictHas(clients, trace[j].id)

\* C11: client ids are unique, strictly increasing in accept order and never
\* reused: nextid is greater than every id in the registry and every id of
\* any event ever appended (also of a client removed in the update() that
\* accepted it), and the registry holds its ids in ascending order.
C11_IdsNeverReused ==
    /\ \A i \in 1..Len(clients) : clients[i].id < nextid
    /\ \A i, j \in 1..Len(clients) : i < j => clients[i].id < clients[j].id
    /\ \A id \in h_ids : id < nextid
    /\ \A i \in 1..Len(events) : events[i][2] < nextid
    /\ \A i \in 1..Len(new_events) : new_events[i][2] < nextid

\* client 1 was accepted and removed in this update() (the name prompt
\* failed), after client 0 had been disconnected
C11_Witness ==
    /\ op.name = "update"
    /\ Effects("send_fail", 1) = 1 /\ Writes(1, PROMPT) = 1
    /\ AppendedFor(EVENT_PLAYER_LEFT, 1) = 1
    /\ h_ids = { 0, 1 }
    /\ clients = << >>
    /\ nextid = 2

Projections == { "get_new_players", "get_disconnected_players", "get_commands" }

\* C12 as stated: between two update() calls no other public operation
\* (send_message or a projection) changes the registry, the pending events
\* or the current events.
C12_OnlyUpdateMutates ==
    [][op'.name \in Projections \cup { "send_message" } =>
          /\ clients' = clients
          /\ new_events' = new_events
          /\ events' = events]_vars

\* C12, amended: a projection changes nothing; send_message never changes the
\* current events or nextid, and changes the registry and the pending events
\* exactly when its write to a registered client fails: it then removes that
\* client and appends one PLAYER_LEFT event for it.
C12_SendFailureMutates ==
    [][/\ op'.name \in Projections =>
             UNCHANGED << clients, nextid, events, new_events >>
       /\ op'.name = "send_message" =>
             /\ UNCHANGED << events, nextid >>
             /\ IF \E i \in 1..Len(trace') : trace'[i].k = "send_fail"
                THEN /\ DictHas(clients, op'.arg)
                     /\ clients' = DictDel(clients, op'.arg)
                     /\ new_events' = Append(new_events, << EVENT_PLAYER_LEFT, op'.arg >>)
                ELSE UNCHANGED << clients, new_events >>]_vars

\* a send_message between two updates removed a client and appended its
\* PLAYER_LEFT event to pending events that were not empty
C12_Witness ==
    /\ op.name = "send_message"
    /\ Effects("send_fail", op.arg) = 1
    /\ ~DictHas(clients, op.arg)
    /\ Len(new_events) = 2
    /\ new_events[2] = << EVENT_PLAYER_LEFT, op.arg >>

\* C13: an accept failure is swallowed: the update() in which accept raised
\* registers no client, still runs the liveness pass and the message pass
\* over every registered client and the buffer swap, and returns normally.
C13_AcceptFailureSwallowed ==
    (\E i \in 1..Len(trace) : trace[i].k = "accept_fail") =>
        /\ UpdateReturned
        /\ \A i \in 1..Len(trace) : trace[i].v # PROMPT
        /\ \A id \in DictIds(clients) : Effects("live", id) = 1 /\ Effects("msg", id) = 1
        /\ new_events = << >>

\* C14: shutdown() on a running server with any number of registered clients
\* closes the socket of every registered client, then the listening socket,
\* and returns normally.
C14_ShutdownClosesAll ==
    op.name = "shutdown" =>
        /\ ~op.raised
        /\ \A id \in DictIds(clients) : Effects("close", id) = 1
        /\ Len(trace) > 0 /\ trace[Len(trace)].k = "close_listen"

\* C15: an empty completed line of a named client (the chunk "\n" on an empty
\* buffer) still yields a COMMAND event, with verb "" and remainder "".
C15_EmptyLineCommand ==
    \A i \in 1..Len(trace) :
        (trace[i].k = "line_named" /\ trace[i].v = << >>) =>
            Appended(<< EVENT_COMMAND, trace[i].id, << >>, << >> >>) = 1

\* the events of one type in a list, in the order of the list
OfType(evs, type) == SelectSeq(evs, LAMBDA ev : ev[1] = type)

\* the event type a projection shows, and what it shows of an event
ShownType(name) ==
    CASE name = "get_new_players" -> EVENT_NEW_PLAYER
      [] name = "get_disconnected_players" -> EVENT_PLAYER_LEFT
      [] name = "get_commands" -> EVENT_COMMAND

Shown(name, ev) ==
    CASE name = "get_new_players" -> << ev[2], ev[3] >>
      [] name = "get_disconnected_players" -> ev[2]
      [] name = "get_commands" -> << ev[2], ev[3], ev[4] >>

\* C16: each projection returns, in the order of the current event list, the
\* (id, name) of exactly its NEW_PLAYER events, the id of exactly its
\* PLAYER_LEFT events, or the (id, verb, remainder) of exactly its COMMAND
\* events; every current event is in exactly one projection; and calling a
\* projection changes no state.
C16_ProjectionsAreViews ==
    [][op'.name \in Projections =>
          /\ UNCHANGED << clients, nextid, events, new_events, now, backlog >>
          /\ LET ret == trace'[1].v
                 sel == OfType(events, ShownType(op'.name))
             IN /\ Len(ret) = Len(sel)
                /\ \A i \in 1..Len(sel) : ret[i] = Shown(op'.name, sel[i])
          /\ \A i \in 1..Len(events) :
                Cardinality({ t \in { EVENT_NEW_PLAYER, EVENT_PLAYER_LEFT, EVENT_COMMAND } :
                                events[i] \in { OfType(events, t)[j] :
                                                   j \in 1..Len(OfType(events, t)) } }) = 1
          /\ Len(GetNewPlayers) + Len(GetDisconnectedPlayers) + Len(GetCommands)
                = Len(events)]_vars

\* get_new_players() has returned two players, in the order in which their
\* NEW_PLAYER events stand in the current list
C16_Witness ==
    /\ op.name = "get_new_players"
    /\ Len(events) = 2
    /\ Len(trace[1].v) = 2
    /\ trace[1].v[1][1] = 0 /\ trace[1].v[2][1] = 1

\* C17 as stated: the acceptor drains the listening socket: when several
\* connections are pending at the start of an update(), all of them are
\* accepted and registered by the time that update() returns.
C17_AcceptorDrains ==
    [][(op'.name = "update" /\ ~op'.raised) =>
          /\ backlog' = 0
          /\ nextid' = nextid + backlog]_vars

\* C17, amended: an update() that returns accepts exactly one of the pending
\* connections (none when none is pending): it registers that one client
\* under the fresh id nextid and sends it the name prompt, and the other
\* connections stay pending on the listening socket for later updates.
C17_AcceptsOnePerUpdate ==
    [][(op'.name = "update" /\ ~op'.raised) =>
          IF backlog = 0
          THEN nextid' = nextid /\ backlog' = 0
          ELSE /\ nextid' = nextid + 1
               /\ backlog' = backlog - 1
               /\ \E i \in 1..Len(trace') :
                     /\ trace'[i].k \in { "send", "send_fail" }
                     /\ trace'[i].id = nextid
                     /\ trace'[i].v = PROMPT
               /\ \/ DictHas(clients', nextid)
                  \/ \E i \in 1..Len(trace') : trace'[i].k = "del" /\ trace'[i].id = nextid
               /\ \A id \in DictIds(clients') \ DictIds(clients) : id = nextid]_vars

\* two connections were pending: this update() has accepted the first as
\* client 0, and the second is still waiting
C17_Witness ==
    /\ UpdateReturned
    /\ nextid = 1
    /\ backlog = 1
    /\ Writes(0, PROMPT) = 1
    /\ DictHas(clients, 0)

\* the pass of update() that appended the event logged at trace[i]: 1 for
\* the accept (the name prompt failed), 2 for the liveness pass (the probe
\* failed), 3 for the message pass (recv failed, or a line was completed)
Pass(i) ==
    IF trace[i].v[1] # EVENT_PLAYER_LEFT \/ trace[i - 2].k = "recv_fail" THEN 3
    ELSE IF trace[i - 2].v = PROMPT THEN 1
    ELSE 2

EmitSites == { i \in 1..Len(trace) : trace[i].k = "emit" }

\* C18: within one update() the events are appended in detection order:
\* those of the accept first, then those of the liveness probes, then those
\* of the message pass, the last with client ids ascending; and the current
\* event list after the update ends with them in that order.
C18_DetectionOrder ==
    UpdateReturned =>
        /\ \A i, j \in EmitSites :
              i < j => /\ Pass(i) <= Pass(j)
                       /\ (Pass(i) = 3 /\ Pass(j) = 3) => trace[i].id < trace[j].id
        /\ Len(Emitted(trace, 1)) <= Len(events)
        /\ SubSeq(events, Len(events) - Len(Emitted(trace, 1)) + 1, Len(events))
              = Emitted(trace, 1)

\* one update() found client 0 dead by its probe and then completed a line
\* of client 1: the PLAYER_LEFT event stands before the event of the line
C18_Witness ==
    /\ UpdateReturned
    /\ Len(events) = 2
    /\ events[1] = << EVENT_PLAYER_LEFT, 0 >>
    /\ events[2][1] \in { EVENT_NEW_PLAYER, EVENT_COMMAND } /\ events[2][2] = 1
    /\ \E i, j \in EmitSites : i < j /\ Pass(i) = 2 /\ Pass(j) = 3

\* of a control sequence cut in two (p_data in SplitInputs): the text before
\* it in the first chunk, the bytes of it that begin the second chunk, and
\* the text after it in the second chunk
SplitPre == SelectSeq(p_data[1], LAMBDA c : c = 97)

SplitTail == SubSeq(p_data[2], 1, 3 - (Len(p_data[1]) - Len(SplitPre)))

SplitPost == SubSeq(p_data[2], Len(SplitTail) + 1, Len(p_data[2]))

\* the bytes of the control sequence that begin the second chunk were
\* appended to the buffer as text
TailBuffered ==
    IF SplitPost = << >>
    THEN p_ret = None /\ p_buffer = SplitPre \o SplitTail
    ELSE p_ret = SplitPre \o SplitTail \o << 98 >> /\ p_buffer = << >>

\* C19 as stated: when IAC, or IAC and WILL/WONT/DO/DONT, ends one chunk and
\* the rest of the control sequence begins the next chunk, the bytes of the
\* next chunk are treated as ordinary text and appended to the buffer.
C19_SplitSequenceIsText ==
    (p_calls = 2 /\ p_data \in SplitInputs) => TailBuffered

\* C19, amended: the same for every option byte other than the newline (10)
\* and IAC (255), which keep their meaning in the normal state.
C19_SplitSequenceIsTextButNewlineAndIac ==
    (/\ p_calls = 2
     /\ p_data \in SplitInputs
     /\ SplitTail[Len(SplitTail)] \notin { NEWLINE, TN_INTERPRET_AS_COMMAND }) => TailBuffered

\* "a" IAC, then WILL <1> "b\n": the line returned is "a", WILL, 1, "b"
C19_Witness ==
    /\ p_calls = 2
    /\ p_data = << << 97, TN_INTERPRET_AS_COMMAND >>, << TN_WILL, 1, 98, NEWLINE >> >>
    /\ p_ret = << 97, TN_WILL, 1, 98 >>
    /\ p_buffer = << >>

RECURSIVE Concat(_, _)
Concat(chunks, i) == IF i > Len(chunks) THEN << >> ELSE chunks[i] \o Concat(chunks, i + 1)

\* C20: when client 0 has received a chunk of a line sent in pieces: while
\* the pieces hold no newline no event is produced and the buffer holds all
\* the bytes received since the previous completed line; the chunk ending
\* with the newline completes the line made of all those bytes, however they
\* were split, and leaves the buffer empty.
C20_LineReassembly ==
    \A i \in 1..Len(trace) :
        (trace[i].k = "recv" /\ trace[i].id = 0) =>
            LET all == Concat(p_data, 1)
                lines == { j \in 1..Len(trace) : trace[j].k \in { "line_named", "line_unnamed" } }
            IN /\ p_data[Len(p_data)] = trace[i].v
               /\ IF all[Len(all)] # NEWLINE
                  THEN /\ lines = { }
                       /\ Effects("emit", 0) = 0
                       /\ DictGet(clients, 0).buffer = all
                  ELSE /\ \E j \in lines :
                            /\ lines = { j }
                            /\ trace[j].id = 0
                            /\ trace[j].v = SubSeq(all, 1, Len(all) - 1)
                       /\ DictGet(clients, 0).buffer = << >>

\* "a" and "b\n" arrived in two update() calls: the second completes "ab"
C20_Witness ==
    /\ p_data = << << 97 >>, << 98, NEWLINE >> >>
    /\ \E i, j \in 1..Len(trace) :
          /\ trace[i] = Effect("recv", 0, << 98, NEWLINE >>)
          /\ trace[j] = Effect("line_named", 0, << 97, 98 >>)
    /\ Appended(<< EVENT_COMMAND, 0, << 97, 98 >>, << >> >>) = 1
    /\ DictGet(clients, 0).buffer = << >>

\* client id is registered, and the clock can still reach the time at which
\* its next probe is due
ProbeWillBeDue(id) ==
    DictHas(clients, id) /\ DictGet(clients, id).lastcheck + PROBE_INTERVAL <= MaxTime

\* client id is no longer registered and get_disconnected_players() shows it
SeenLeft(id) ==
    /\ ~DictHas(clients, id)
    /\ \E i \in 1..Len(GetDisconnectedPlayers) : GetDisconnectedPlayers[i] = id

\* C21: dead-peer detection is live: a registered client whose peer has gone
\* away is eventually removed from the registry, and get_disconnected_players
\* eventually shows a PLAYER_LEFT event for its id, provided update() keeps
\* being called while time advances.
C21_DeadPeerDetected ==
    \A id \in 0..(MaxId - 1) : ProbeWillBeDue(id) ~> SeenLeft(id)

\* the same, when update() returns normally again and again
C21_DetectedWhenUpdateReturns ==
    ([]<>UpdateReturned) => C21_DeadPeerDetected

\* the key of active_players that stands for player id, if there is one
Stored(id) == \E k \in active_players : k.id = id

\* C22: after the loops of the game, every player reported by
\* get_new_players() is a key of active_players under its integer id, and
\* every command of get_commands() from a player stored before was handled,
\* not skipped.
C22_PlayersKeyedById ==
    op.name = "process" =>
        /\ \A i \in 1..Len(GetNewPlayers) : IntKey(GetNewPlayers[i][1]) \in active_players
        /\ \A i \in 1..Len(GetCommands) :
              Stored(GetCommands[i][1]) =>
                  /\ Effects("handled", GetCommands[i][1]) = 1
                  /\ Effects("skipped", GetCommands[i][1]) = 0

\* the same for the commands alone
C22_StoredPlayersHandled ==
    op.name = "process" =>
        \A i \in 1..Len(GetCommands) :
            Stored(GetCommands[i][1]) => Effects("skipped", GetCommands[i][1]) = 0

\* no command is ever handled
C22_NeverHandled == \A i \in 1..Len(trace) : trace[i].k # "handled"

\* C23: disconnect is terminal per id: at most one PLAYER_LEFT event is ever
\* appended for an id, the id is then gone from the registry, no NEW_PLAYER
\* or COMMAND event for it is appended afterwards, and _handle_disconnect is
\* never invoked for an id that is not in the registry.
C23_DisconnectIsTerminal ==
    /\ \A id \in DOMAIN h_life :
          /\ h_life[id].left <= 1
          /\ ~h_life[id].late
          /\ h_life[id].left = 1 => ~DictHas(clients, id)
    /\ \A i \in 1..Len(trace) : trace[i].k # "keyerror"

\* client 0 was named and has left; in a later update() client 1 completes a
\* line, and a send_message to the id 0 has been tried since
C23_Witness ==
    /\ h_life[0] = [new |-> 1, left |-> 1, early |-> FALSE, late |-> FALSE]
    /\ ~DictHas(clients, 0)
    /\ op.name = "send_message" /\ op.arg = 0
    /\ h_life[1].new = 1 /\ h_life[1].left = 0
    /\ \E i \in 1..Len(events) : events[i][1] = EVENT_COMMAND /\ events[i][2] = 1

\* C24: naming happens once and first: at most one NEW_PLAYER event is ever
\* appended for an id, no COMMAND event is appended for an id before its
\* NEW_PLAYER event, a registered client is named exactly when its NEW_PLAYER
\* event has been appended, and the named flag of a client never goes back
\* from true to false.
C24_NamedOnceAndFirst ==
    [][\A id \in DOMAIN h_life :
          /\ h_life'[id].new <= 1
          /\ ~h_life'[id].early
          /\ DictHas(clients', id) =>
                /\ DictGet(clients', id).named <=> h_life'[id].new = 1
                /\ (DictHas(clients, id) /\ DictGet(clients, id).named) =>
                      DictGet(clients', id).named]_vars

\* client 0, named by an earlier line, has completed another line in this
\* update(): a COMMAND event was appended for it, no second NEW_PLAYER
C24_Witness ==
    /\ UpdateReturned
    /\ AppendedFor(EVENT_COMMAND, 0) = 1
    /\ AppendedFor(EVENT_NEW_PLAYER, 0) = 0
    /\ h_life[0] = [new |-> 1, left |-> 0, early |-> FALSE, late |-> FALSE]
    /\ DictGet(clients, 0).named

\* text holds neither IAC nor a newline
Clean(text) ==
    \A i \in 1..Len(text) : text[i] \notin { TN_INTERPRET_AS_COMMAND, NEWLINE }

\* C25: whatever bytes are received and however they are split into chunks,
\* the client's buffer never holds the byte IAC (255) or a newline, and no
\* line returned by _process_sent_data holds either of them.
C25_NoIacNoNewline ==
    /\ Clean(p_buffer)
    /\ p_ret # None => Clean(p_ret)

\* IAC IAC, then "a" and a newline: the second call returns the line "a"
C25_Witness ==
    /\ p_calls = 2
    /\ p_data = << << TN_INTERPRET_AS_COMMAND, TN_INTERPRET_AS_COMMAND >>,
                   << 97, NEWLINE >> >>
    /\ p_ret = << 97 >>
    /\ p_buffer = << >>
====
